---- MODULE Spec2Model ----
(***************************************************************************)
(* SlackHook (airflow/providers/slack/hooks/slack.py): token resolution,   *)
(* client construction and the call forwarder with its error translation.  *)
(*                                                                         *)
(* One behaviour follows one hook instance: the caller's constructor       *)
(* arguments are chosen in Init, Construct is SlackHook.__init__ and Call  *)
(* is SlackHook.call.  The connection registry, the WebClient constructor, *)
(* WebClient.api_call and the response's validate() are collaborators      *)
(* whose outcomes are chosen by the environment.                           *)
(***************************************************************************)
EXTENDS Naturals, Sequences, FiniteSets, TLC

VARIABLES pc, kwargs, self, resolved, lookups, ctorCalls, initResult,
          nCalls, apiCount, lastCall

vars == <<pc, kwargs, self, resolved, lookups, ctorCalls, initResult,
          nCalls, apiCount, lastCall>>

(* How many times call() may be invoked on the hook in one behaviour. *)
MaxCalls == 2

-----------------------------------------------------------------------------
(* Python values: None, str and int, tagged by type.                       *)

None == [t |-> "NoneType", v |-> ""]

Str(s) == [t |-> "str", v |-> s]

Int(n) == [t |-> "int", v |-> n]

Bool(b) == [t |-> "bool", v |-> b]

(* `x is not None` *)
IsNotNone(x) == x.t # "NoneType"

(* bool(x) for None and str: None and '' are falsy. *)
Truthy(x) == x.t = "str" /\ x.v # ""

EmptyDict == <<>>

(* Exceptions: a type name and str(exc). *)
Exc(type, msg) == [type |-> type, msg |-> msg]

NoExc == Exc("", "")

(* slack.errors: SlackApiError and SlackRequestError derive from           *)
(* SlackClientError, so `except SlackClientError` catches all three.       *)
SlackClientErrorTypes == {"SlackClientError", "SlackApiError", "SlackRequestError"}

IsSlackClientError(exc) == exc.type \in SlackClientErrorTypes

(* Outcome of a function: a returned value or a raised exception. *)
Return(value) == [kind |-> "return", value |-> value, exc |-> NoExc]

Raise(exc) == [kind |-> "raise", value |-> None, exc |-> exc]

NotRun == [kind |-> "none", value |-> None, exc |-> NoExc]

-----------------------------------------------------------------------------
(* The connection registry behind BaseHook.get_connection.  A record may   *)
(* have no password attribute, a None password or an empty one.            *)

Connections ==
    ("slack_default" :> ("conn_id" :> Str("slack_default") @@ "password" :> Str("xoxb-default")))
 @@ ("slack_alt"     :> ("conn_id" :> Str("slack_alt")     @@ "password" :> Str("xoxb-alt")))
 @@ ("slack_empty"   :> ("conn_id" :> Str("slack_empty")   @@ "password" :> Str("")))
 @@ ("slack_none"    :> ("conn_id" :> Str("slack_none")    @@ "password" :> None))
 @@ ("slack_nopw"    :> ("conn_id" :> Str("slack_nopw")))

(* self.get_connection(conn_id): the record, or the registry's own error   *)
(* for an identifier it does not know.                                     *)
get_connection(conn_id) ==
    IF conn_id.t = "str" /\ conn_id.v \in DOMAIN Connections
    THEN Return(Connections[conn_id.v])
    ELSE Raise(Exc("AirflowException", "The conn_id isn't defined"))

(* getattr(obj, name, default) *)
getattr(obj, name, default) == IF name \in DOMAIN obj THEN obj[name] ELSE default

-----------------------------------------------------------------------------
(* Token resolution.  In the records below `lookups` lists the             *)
(* identifiers get_connection was called with.                             *)

(* Variants of __get_token with one plausible slip each. *)

(* the connection is preferred whenever an identifier is given *)
get_token_conn_first(token, slack_conn_id) ==
    IF IsNotNone(slack_conn_id)
    THEN LET conn == get_connection(slack_conn_id)
         IN  IF conn.kind = "raise"
             THEN [out |-> Raise(conn.exc), lookups |-> <<slack_conn_id>>]
             ELSE IF ~Truthy(getattr(conn.value, "password", None))
             THEN [out |-> Raise(Exc("AirflowException",
                                     "Missing token(password) in Slack connection")),
                   lookups |-> <<slack_conn_id>>]
             ELSE [out |-> Return(conn.value["password"]),
                   lookups |-> <<slack_conn_id>>]
    ELSE IF IsNotNone(token)
    THEN [out |-> Return(token), lookups |-> <<>>]
    ELSE [out |-> Raise(Exc("AirflowException",
                            "Cannot get token: " \o
                            "No valid Slack token nor slack_conn_id supplied.")),
          lookups |-> <<>>]

(* the password is read through a second get_connection call *)
get_token_relookup(token, slack_conn_id) ==
    IF IsNotNone(token)
    THEN [out |-> Return(token), lookups |-> <<>>]
    ELSE IF IsNotNone(slack_conn_id)
    THEN LET conn == get_connection(slack_conn_id)
         IN  IF conn.kind = "raise"
             THEN [out |-> Raise(conn.exc), lookups |-> <<slack_conn_id>>]
             ELSE IF ~Truthy(getattr(conn.value, "password", None))
             THEN [out |-> Raise(Exc("AirflowException",
                                     "Missing token(password) in Slack connection")),
                   lookups |-> <<slack_conn_id>>]
             ELSE [out |-> Return(get_connection(slack_conn_id).value["password"]),
                   lookups |-> <<slack_conn_id, slack_conn_id>>]
    ELSE [out |-> Raise(Exc("AirflowException",
                            "Cannot get token: " \o
                            "No valid Slack token nor slack_conn_id supplied.")),
          lookups |-> <<>>]

(* `if getattr(conn, 'password', None) is None` in place of `if not ...` *)
get_token_none_check(token, slack_conn_id) ==
    IF IsNotNone(token)
    THEN [out |-> Return(token), lookups |-> <<>>]
    ELSE IF IsNotNone(slack_conn_id)
    THEN LET conn == get_connection(slack_conn_id)
         IN  IF conn.kind = "raise"
             THEN [out |-> Raise(conn.exc), lookups |-> <<slack_conn_id>>]
             ELSE IF ~IsNotNone(getattr(conn.value, "password", None))
             THEN [out |-> Raise(Exc("AirflowException",
                                     "Missing token(password) in Slack connection")),
                   lookups |-> <<slack_conn_id>>]
             ELSE [out |-> Return(conn.value["password"]),
                   lookups |-> <<slack_conn_id>>]
    ELSE [out |-> Raise(Exc("AirflowException",
                            "Cannot get token: " \o
                            "No valid Slack token nor slack_conn_id supplied.")),
          lookups |-> <<>>]

(* with neither argument the default connection is looked up *)
get_token_default_conn(token, slack_conn_id) ==
    IF IsNotNone(token)
    THEN [out |-> Return(token), lookups |-> <<>>]
    ELSE LET id   == IF IsNotNone(slack_conn_id) THEN slack_conn_id ELSE Str("slack_default")
             conn == get_connection(id)
         IN  IF conn.kind = "raise"
             THEN [out |-> Raise(conn.exc), lookups |-> <<id>>]
             ELSE IF ~Truthy(getattr(conn.value, "password", None))
             THEN [out |-> Raise(Exc("AirflowException",
                                     "Missing token(password) in Slack connection")),
                   lookups |-> <<id>>]
             ELSE [out |-> Return(conn.value["password"]), lookups |-> <<id>>]

(* SlackHook.__get_token (lines 62-74). *)
get_token(token, slack_conn_id) ==
    IF IsNotNone(token)
    THEN [out |-> Return(token), lookups |-> <<>>]
    ELSE IF IsNotNone(slack_conn_id)
    THEN LET conn == get_connection(slack_conn_id)
         IN  IF conn.kind = "raise"
             THEN [out |-> Raise(conn.exc), lookups |-> <<slack_conn_id>>]
             ELSE IF ~Truthy(getattr(conn.value, "password", None))
             THEN [out |-> Raise(Exc("AirflowException",
                                     "Missing token(password) in Slack connection")),
                   lookups |-> <<slack_conn_id>>]
             ELSE [out |-> Return(conn.value["password"]),
                   lookups |-> <<slack_conn_id>>]
    ELSE [out |-> Raise(Exc("AirflowException",
                            "Cannot get token: " \o
                            "No valid Slack token nor slack_conn_id supplied.")),
          lookups |-> <<>>]

-----------------------------------------------------------------------------
(* Binding of the caller's keyword arguments to the parameters of          *)
(* __init__(self, token=None, slack_conn_id=None, **client_args).          *)

BindToken(kw) == IF "token" \in DOMAIN kw THEN kw["token"] ELSE None

BindConnId(kw) == IF "slack_conn_id" \in DOMAIN kw THEN kw["slack_conn_id"] ELSE None

(* the hook fills in the documented default timeout itself *)
BindClientArgs_default_timeout(kw) ==
    LET given == [k \in DOMAIN kw \ {"token", "slack_conn_id"} |-> kw[k]]
    IN  IF "timeout" \in DOMAIN given THEN given ELSE given @@ ("timeout" :> Int(30))

BindClientArgs(kw) == [k \in DOMAIN kw \ {"token", "slack_conn_id"} |-> kw[k]]

(* WebClient(token, **client_args): the n-th client built, or the          *)
(* constructor's own error when the environment makes it fail.             *)
WebClient(n, token, client_args, ctorEnv) ==
    IF ctorEnv = "ok"
    THEN Return([id |-> n, token |-> token, options |-> client_args])
    ELSE Raise(Exc("TypeError", "__init__() got an unexpected keyword argument"))

(* __init__ that also keeps the token: self.token = token *)
init_store_token(kw, ctorEnv) ==
    LET token         == BindToken(kw)
        slack_conn_id == BindConnId(kw)
        client_args   == BindClientArgs(kw)
        tok           == get_token(token, slack_conn_id)
    IN  IF tok.out.kind = "raise"
        THEN [out |-> Raise(tok.out.exc), self |-> EmptyDict, token |-> tok.out,
              lookups |-> tok.lookups, ctorCalls |-> <<>>]
        ELSE LET client == WebClient(1, tok.out.value, client_args, ctorEnv)
                 args   == [token |-> tok.out.value, options |-> client_args]
             IN  IF client.kind = "raise"
                 THEN [out |-> Raise(client.exc), self |-> ("token" :> tok.out.value),
                       token |-> tok.out,
                       lookups |-> tok.lookups, ctorCalls |-> <<args>>]
                 ELSE [out |-> Return(None),
                       self |-> ("token" :> tok.out.value @@ "client" :> client.value),
                       token |-> tok.out,
                       lookups |-> tok.lookups, ctorCalls |-> <<args>>]

(* SlackHook.__init__ (lines 52-60) on the caller's keyword arguments.     *)
init(kw, ctorEnv) ==
    LET token         == BindToken(kw)
        slack_conn_id == BindConnId(kw)
        client_args   == BindClientArgs(kw)
        tok           == get_token(token, slack_conn_id)
    IN  IF tok.out.kind = "raise"
        THEN [out |-> Raise(tok.out.exc), self |-> EmptyDict, token |-> tok.out,
              lookups |-> tok.lookups, ctorCalls |-> <<>>]
        ELSE LET client == WebClient(1, tok.out.value, client_args, ctorEnv)
                 args   == [token |-> tok.out.value, options |-> client_args]
             IN  IF client.kind = "raise"
                 THEN [out |-> Raise(client.exc), self |-> EmptyDict, token |-> tok.out,
                       lookups |-> tok.lookups, ctorCalls |-> <<args>>]
                 ELSE [out |-> Return(None), self |-> ("client" :> client.value),
                       token |-> tok.out,
                       lookups |-> tok.lookups, ctorCalls |-> <<args>>]

-----------------------------------------------------------------------------
(* The caller's constructor arguments.                                     *)

TokenArgs == {EmptyDict, "token" :> None, "token" :> Str(""), "token" :> Str("xoxb-direct")}

ConnIdArgs ==
    {EmptyDict, "slack_conn_id" :> None}
    \cup {"slack_conn_id" :> Str(c) :
            c \in {"slack_default", "slack_alt", "slack_empty", "slack_none",
                   "slack_nopw", "missing_conn"}}

OptionArgs ==
    {EmptyDict,
     "timeout" :> Int(5) @@ "base_url" :> Str("https://example.test/api/"),
     "use_session" :> Bool(FALSE) @@ "timeout" :> Int(5)}

CtorEnvs == {"ok", "raise"}

Init ==
    /\ pc = "uninit"
    /\ kwargs \in {t @@ c @@ o : t \in TokenArgs, c \in ConnIdArgs, o \in OptionArgs}
    /\ self = EmptyDict
    /\ resolved = NotRun
    /\ lookups = <<>>
    /\ ctorCalls = <<>>
    /\ initResult = NotRun
    /\ nCalls = 0
    /\ apiCount = 0
    /\ lastCall = [method |-> "", api_params |-> EmptyDict,
                   env |-> [api |-> "", validate |-> "", exc |-> NoExc],
                   api_calls |-> <<>>, validates |-> 0, out |-> NotRun]

(* hook = SlackHook(token=..., slack_conn_id=..., and the client options) *)
Construct ==
    /\ pc = "uninit"
    /\ \E ctorEnv \in CtorEnvs :
         LET r == init(kwargs, ctorEnv)
         IN  /\ pc' = IF r.out.kind = "return" THEN "ready" ELSE "failed"
             /\ self' = r.self
             /\ resolved' = r.token
             /\ lookups' = lookups \o r.lookups
             /\ ctorCalls' = ctorCalls \o r.ctorCalls
             /\ initResult' = r.out
    /\ UNCHANGED <<kwargs, nCalls, apiCount, lastCall>>

-----------------------------------------------------------------------------
(* SlackHook.call (lines 76-89).                                           *)

Methods == {"chat.postMessage", "auth.test"}

ApiParams ==
    {EmptyDict,
     "json" :> Str("{channel: #general, text: hi}") @@ "http_verb" :> Str("POST")}

(* What the client library does with one invocation: api_call raises, or   *)
(* returns a response whose validate() passes or raises.                   *)
Details == {"invalid_auth", "channel_not_found"}

ApiEnvs ==
    {[api |-> "raise", validate |-> "", exc |-> Exc("SlackRequestError", "bad files argument")],
     [api |-> "raise", validate |-> "", exc |-> Exc("TimeoutError", "timed out")],
     [api |-> "return", validate |-> "ok", exc |-> NoExc],
     [api |-> "return", validate |-> "raise", exc |-> Exc("AttributeError", "no validate")]}
    \cup {[api |-> "return", validate |-> "raise", exc |-> Exc("SlackApiError", d)] :
            d \in Details}
    \cup {[api |-> "return", validate |-> "raise",
           exc |-> Exc("SlackClientError", "run_async response")]}

(* The response object api_call returns. *)
Response(env) == [t |-> "SlackResponse", v |-> env.validate]

(* self.client.api_call(method, **api_params): the invocation the client   *)
(* sees and its outcome.                                                   *)
api_call(client, method, kw, env) ==
    [seen |-> [client |-> client.id, method |-> method, kwargs |-> kw],
     out  |-> IF env.api = "raise" THEN Raise(env.exc) ELSE Return(Response(env))]

(* return_code.validate() *)
validate(env) == IF env.validate = "ok" THEN Return(Response(env)) ELSE Raise(env.exc)

(* f"{exc!r}" *)
FormatExc_repr(exc) == exc.type \o "('" \o exc.msg \o "')"

(* f"{exc}" *)
FormatExc(exc) == exc.msg

(* call that ends with `return return_code` *)
call_return_response(slf, method, api_params, env) ==
    LET inv == api_call(slf["client"], method, [k \in DOMAIN api_params |-> api_params[k]], env)
    IN  IF inv.out.kind = "raise"
        THEN [out |-> Raise(inv.out.exc), self |-> slf,
              api_calls |-> <<inv.seen>>, validates |-> 0, ctorCalls |-> <<>>]
        ELSE LET val == validate(env)
             IN  IF val.kind = "raise" /\ IsSlackClientError(val.exc)
                 THEN [out |-> Raise(Exc("AirflowException",
                                         "Slack API call failed (" \o FormatExc(val.exc) \o ")")),
                       self |-> slf,
                       api_calls |-> <<inv.seen>>, validates |-> 1, ctorCalls |-> <<>>]
                 ELSE IF val.kind = "raise"
                 THEN [out |-> Raise(val.exc), self |-> slf,
                       api_calls |-> <<inv.seen>>, validates |-> 1, ctorCalls |-> <<>>]
                 ELSE [out |-> Return(inv.out.value), self |-> slf,
                       api_calls |-> <<inv.seen>>, validates |-> 1, ctorCalls |-> <<>>]

(* call whose try block also covers the api_call line *)
call_try_covers_api_call(slf, method, api_params, env) ==
    LET inv == api_call(slf["client"], method, [k \in DOMAIN api_params |-> api_params[k]], env)
    IN  IF inv.out.kind = "raise"
        THEN [out |-> IF IsSlackClientError(inv.out.exc)
                      THEN Raise(Exc("AirflowException",
                                     "Slack API call failed (" \o FormatExc(inv.out.exc) \o ")"))
                      ELSE Raise(inv.out.exc),
              self |-> slf,
              api_calls |-> <<inv.seen>>, validates |-> 0, ctorCalls |-> <<>>]
        ELSE LET val == validate(env)
             IN  IF val.kind = "raise" /\ IsSlackClientError(val.exc)
                 THEN [out |-> Raise(Exc("AirflowException",
                                         "Slack API call failed (" \o FormatExc(val.exc) \o ")")),
                       self |-> slf,
                       api_calls |-> <<inv.seen>>, validates |-> 1, ctorCalls |-> <<>>]
                 ELSE IF val.kind = "raise"
                 THEN [out |-> Raise(val.exc), self |-> slf,
                       api_calls |-> <<inv.seen>>, validates |-> 1, ctorCalls |-> <<>>]
                 ELSE [out |-> Return(None), self |-> slf,
                       api_calls |-> <<inv.seen>>, validates |-> 1, ctorCalls |-> <<>>]

(* SlackHook.call (lines 83-89) on the hook's attributes `slf`. *)
call(slf, method, api_params, env) ==
    LET inv == api_call(slf["client"], method, [k \in DOMAIN api_params |-> api_params[k]], env)
    IN  IF inv.out.kind = "raise"
        THEN [out |-> Raise(inv.out.exc), self |-> slf,
              api_calls |-> <<inv.seen>>, validates |-> 0, ctorCalls |-> <<>>]
        ELSE LET val == validate(env)
             IN  IF val.kind = "raise" /\ IsSlackClientError(val.exc)
                 THEN [out |-> Raise(Exc("AirflowException",
                                         "Slack API call failed (" \o FormatExc(val.exc) \o ")")),
                       self |-> slf,
                       api_calls |-> <<inv.seen>>, validates |-> 1, ctorCalls |-> <<>>]
                 ELSE IF val.kind = "raise"
                 THEN [out |-> Raise(val.exc), self |-> slf,
                       api_calls |-> <<inv.seen>>, validates |-> 1, ctorCalls |-> <<>>]
                 ELSE [out |-> Return(None), self |-> slf,
                       api_calls |-> <<inv.seen>>, validates |-> 1, ctorCalls |-> <<>>]

(* hook.call(method, api_params) *)
Call ==
    /\ pc = "ready"
    /\ nCalls < MaxCalls
    /\ \E method \in Methods, api_params \in ApiParams, env \in ApiEnvs :
         LET r == call(self, method, api_params, env)
         IN  /\ self' = r.self
             /\ ctorCalls' = ctorCalls \o r.ctorCalls
             /\ apiCount' = apiCount + Len(r.api_calls)
             /\ lastCall' = [method |-> method, api_params |-> api_params, env |-> env,
                             api_calls |-> r.api_calls, validates |-> r.validates,
                             out |-> r.out]
    /\ nCalls' = nCalls + 1
    /\ UNCHANGED <<pc, kwargs, resolved, lookups, initResult>>

Next == Construct \/ Call

Spec == Init /\ [][Next]_vars

-----------------------------------------------------------------------------
(* The arguments __init__ received, as the claims below refer to them.     *)

Constructed == pc # "uninit"

GivenToken == IF "token" \in DOMAIN kwargs THEN kwargs["token"] ELSE None

GivenConnId == IF "slack_conn_id" \in DOMAIN kwargs THEN kwargs["slack_conn_id"] ELSE None

GivenOptions == [k \in DOMAIN kwargs \ {"token", "slack_conn_id"} |-> kwargs[k]]

ConnIdRegistered == GivenConnId.t = "str" /\ GivenConnId.v \in DOMAIN Connections

NonEmptyStr(x) == x.t = "str" /\ x.v # ""

(* C1: with a non-empty direct token T and any connection identifier       *)
(* (absent, valid or unresolvable), construction resolves the token to T   *)
(* and get_connection is never called.                                     *)
C1_DirectTokenWins ==
    (Constructed /\ NonEmptyStr(GivenToken)) =>
        /\ resolved = Return(GivenToken)
        /\ lookups = <<>>
        /\ Len(ctorCalls) = 1
        /\ ctorCalls[1].token = GivenToken

C1_Witness ==
    /\ pc = "ready"
    /\ GivenToken = Str("xoxb-direct")
    /\ GivenConnId = Str("missing_conn")
    /\ self["client"].token = Str("xoxb-direct")

(* C2: with token None and a connection identifier C whose record has a    *)
(* non-empty password S, resolution makes exactly one registry lookup, for *)
(* C, returns S, and the client is constructed with S as its token.        *)
C2_ConnectionPassword ==
    (/\ Constructed
     /\ GivenToken = None
     /\ ConnIdRegistered
     /\ "password" \in DOMAIN Connections[GivenConnId.v]
     /\ NonEmptyStr(Connections[GivenConnId.v]["password"])) =>
        LET S == Connections[GivenConnId.v]["password"]
        IN  /\ lookups = <<GivenConnId>>
            /\ resolved = Return(S)
            /\ Len(ctorCalls) = 1
            /\ ctorCalls[1].token = S
            /\ (pc = "ready" => self["client"].token = S)

C2_Witness ==
    /\ pc = "ready"
    /\ GivenToken = None
    /\ GivenConnId = Str("slack_alt")
    /\ self["client"].token = Str("xoxb-alt")

(* C3: with token None and a connection record whose password is missing,  *)
(* None or '', construction fails with AirflowException 'Missing           *)
(* token(password) in Slack connection' and no client is constructed.      *)
C3_MissingPassword ==
    (/\ Constructed
     /\ GivenToken = None
     /\ ConnIdRegistered
     /\ \/ "password" \notin DOMAIN Connections[GivenConnId.v]
        \/ Connections[GivenConnId.v]["password"] = None
        \/ Connections[GivenConnId.v]["password"] = Str("")) =>
        /\ pc = "failed"
        /\ initResult = Raise(Exc("AirflowException",
                                  "Missing token(password) in Slack connection"))
        /\ ctorCalls = <<>>
        /\ self = EmptyDict

C3_Witness ==
    /\ pc = "failed"
    /\ GivenToken = None
    /\ GivenConnId = Str("slack_empty")
    /\ lookups = <<Str("slack_empty")>>

(* C4: with token and slack_conn_id both None, construction fails with     *)
(* AirflowException 'Cannot get token: No valid Slack token nor            *)
(* slack_conn_id supplied.', with no registry lookup and no client.        *)
C4_NothingSupplied ==
    (Constructed /\ GivenToken = None /\ GivenConnId = None) =>
        /\ pc = "failed"
        /\ initResult = Raise(Exc("AirflowException",
               "Cannot get token: No valid Slack token nor slack_conn_id supplied."))
        /\ lookups = <<>>
        /\ ctorCalls = <<>>
        /\ self = EmptyDict

C4_Witness ==
    /\ pc = "failed"
    /\ GivenToken = None
    /\ GivenConnId = None
    /\ initResult.kind = "raise"

(* C5: a call whose response fails validation with the client library's    *)
(* domain error of detail D raises AirflowException 'Slack API call failed *)
(* (D)' after exactly one api_call invocation: no retry, no suppression.   *)
C5_ValidationErrorTranslated ==
    (/\ nCalls > 0
     /\ lastCall.env.api = "return"
     /\ lastCall.env.validate = "raise"
     /\ lastCall.env.exc.type \in {"SlackClientError", "SlackApiError", "SlackRequestError"}) =>
        /\ lastCall.out.kind = "raise"
        /\ lastCall.out.exc.type = "AirflowException"
        /\ lastCall.out.exc.msg = "Slack API call failed (" \o lastCall.env.exc.msg \o ")"
        /\ (lastCall.env.exc.msg = "invalid_auth"
              => lastCall.out.exc.msg = "Slack API call failed (invalid_auth)")
        /\ Len(lastCall.api_calls) = 1
        /\ apiCount = nCalls

C5_Witness ==
    /\ nCalls > 0
    /\ lastCall.env.validate = "raise"
    /\ lastCall.env.exc = Exc("SlackApiError", "invalid_auth")
    /\ lastCall.out = Raise(Exc("AirflowException", "Slack API call failed (invalid_auth)"))

(* C6: a call whose response passes validation returns None and makes      *)
(* exactly one api_call invocation, on the hook's client, with the same    *)
(* method name and the parameter mapping unchanged as keyword arguments.   *)
C6_SuccessReturnsNone ==
    (nCalls > 0 /\ lastCall.env.api = "return" /\ lastCall.env.validate = "ok") =>
        /\ lastCall.out = Return(None)
        /\ lastCall.api_calls = <<[client |-> self["client"].id,
                                   method |-> lastCall.method,
                                   kwargs |-> lastCall.api_params]>>
        /\ lastCall.validates = 1
        /\ apiCount = nCalls

C6_Witness ==
    /\ nCalls > 0
    /\ lastCall.env.validate = "ok"
    /\ lastCall.method = "chat.postMessage"
    /\ "json" \in DOMAIN lastCall.api_params
    /\ lastCall.out.kind = "return"

(* C7: the WebClient constructor runs at most once per hook: once when     *)
(* token resolution succeeded, with the resolved token, never when         *)
(* resolution or the lookup failed; calls never rebuild or replace the     *)
(* client, and the hook keeps no attribute besides the client.             *)
C7_ClientBuiltOnce ==
    /\ Len(ctorCalls) <= 1
    /\ (~Constructed => ctorCalls = <<>> /\ self = EmptyDict)
    /\ (Constructed => (Len(ctorCalls) = 1 <=> resolved.kind = "return"))
    /\ (Len(ctorCalls) = 1 => ctorCalls[1].token = resolved.value)
    /\ (pc = "ready" => self = ("client" :> [id |-> 1, token |-> resolved.value,
                                             options |-> ctorCalls[1].options]))
    /\ (pc = "failed" => self = EmptyDict)
    /\ "token" \notin DOMAIN self

C7_Witness ==
    /\ pc = "ready"
    /\ nCalls >= 2
    /\ lastCall.out.kind = "raise"
    /\ Len(ctorCalls) = 1

(* C8: whenever construction succeeds, the token handed to the client is a *)
(* non-empty string, for every combination of direct token and connection  *)
(* record.                                                                 *)
C8_TokenNonEmpty ==
    pc = "ready" => NonEmptyStr(self["client"].token)

(* C9: the client options given to the constructor reach WebClient         *)
(* unmodified, with the resolved token: none added, removed or rewritten,  *)
(* and token and slack_conn_id are not forwarded as options.               *)
C9_OptionsPassThrough ==
    /\ \A i \in 1..Len(ctorCalls) :
          /\ ctorCalls[i].options = GivenOptions
          /\ ctorCalls[i].token = resolved.value
          /\ DOMAIN ctorCalls[i].options \cap {"token", "slack_conn_id"} = {}
    /\ (pc = "ready" => self["client"].options = GivenOptions)

C9_Witness ==
    /\ pc = "ready"
    /\ "slack_conn_id" \in DOMAIN kwargs
    /\ DOMAIN self["client"].options = {"timeout", "base_url"}
    /\ self["client"].options["timeout"] = Int(5)
    /\ self["client"].options["base_url"] = Str("https://example.test/api/")

(* C10: call translates nothing but a domain error raised by validate():   *)
(* an exception raised by api_call itself, the domain error type included, *)
(* propagates unmodified with validate never invoked, and a non-domain     *)
(* exception raised by validate() propagates unmodified.                   *)
C10_OnlyValidationTranslated ==
    nCalls > 0 =>
        /\ (lastCall.env.api = "raise" =>
               lastCall.out = Raise(lastCall.env.exc) /\ lastCall.validates = 0)
        /\ (/\ lastCall.env.api = "return"
            /\ lastCall.env.validate = "raise"
            /\ lastCall.env.exc.type
                 \notin {"SlackClientError", "SlackApiError", "SlackRequestError"}
            => lastCall.out = Raise(lastCall.env.exc))
        /\ (lastCall.out.kind = "raise" /\ lastCall.out.exc # lastCall.env.exc =>
               /\ lastCall.env.api = "return"
               /\ lastCall.env.validate = "raise"
               /\ lastCall.env.exc.type
                    \in {"SlackClientError", "SlackApiError", "SlackRequestError"})

C10_Witness ==
    /\ nCalls > 0
    /\ lastCall.env.api = "raise"
    /\ lastCall.env.exc.type = "SlackRequestError"
    /\ lastCall.out = Raise(lastCall.env.exc)
    /\ lastCall.validates = 0

====
